---- MODULE Spec2Model ----
(***************************************************************************)
(* Model of the VLM-SLAM conversation streamer (src/main.py): the retry    *)
(* loop of send_messages and the per-frame / summary driver of main.       *)
(*                                                                         *)
(* Python values are encoded uniformly so that any two of them compare:    *)
(*   - a turn is [role, content]; content is [form, str, parts], form      *)
(*     "str" for a plain string and "list" for a list of typed parts;      *)
(*   - None is the distinguished string PyNone;                            *)
(*   - sleep durations are counted in half seconds, the unit of the        *)
(*     factor 0.5 in time.sleep(2 ** i * 0.5).                             *)
(*                                                                         *)
(* A request is one call of SESSION.post and a sleep one call of           *)
(* time.sleep by send_messages; what the mounted HTTPAdapter does beneath  *)
(* one post for connection errors is inside that one request.  An          *)
(* exception that send_messages does not catch ends main: pc = "crashed".  *)
(***************************************************************************)
EXTENDS Integers, Sequences, FiniteSets, TLC

VARIABLES
    frames,      \* main: the sorted list of image files (line 117)
    outGiven,    \* main: args.out is set
    convo,       \* main: the conversation list
    idx,         \* main: 1-based index of the frame being processed
    pc,          \* position of the driver
    i,           \* send_messages: attempt number of the running call
    ret,         \* value returned by the last finished send_messages call
    sleeps,      \* durations passed to time.sleep by the running/last call
    sent,        \* message lists posted by the running/last call, in order
    lastResp,    \* what the last attempt of the running/last call received
    onlyRetryableStatus, \* every attempt of the running/last call got a status in RETRYABLE_STATUSES
    wire,        \* every message list ever posted (all calls)
    replies,     \* [frame, value] of the finished calls, in order: the frame the
                 \* call was for (0 for the summary call) and the value returned
    written,     \* the transcript file has been written
    transcript,  \* content of the transcript file
    counting,    \* the requests of the whole run are being counted
    nreqTotal,   \* number of requests posted by all calls, when counted
    \* main, line 117: the frame enumerator
    dirFiles,    \* names of the files in the directory --dir
    listing,     \* the list `frames` that line 117 builds from it
    enumPc,      \* position of the enumerator
    \* screenshot_tool.py
    capArgs,     \* sys.argv[1:]
    capPc,       \* position of the capturer
    interval,    \* interval_seconds
    dirCreated,  \* os.makedirs(output_dir) has run
    clock,       \* time.time(), in ticks
    shots,       \* timestamps of the files written, in order
    capEvents,   \* grabs, writes and sleeps done by the loop, in order
    capLog,      \* what the capturer printed last
    exitCode     \* exit status of the capturer process, NotExited while it runs

streamerVars == <<frames, outGiven, convo, idx, pc, i, ret, sleeps, sent, lastResp,
                  onlyRetryableStatus, wire, replies, written, transcript>>

countVars == <<counting, nreqTotal>>

enumVars == <<dirFiles, listing, enumPc>>

capVars == <<capArgs, capPc, interval, dirCreated, clock, shots, capEvents, capLog,
             exitCode>>

vars == <<streamerVars, countVars, enumVars, capVars>>

-----------------------------------------------------------------------------
(* Bounds of the model *)

MaxFrames == 3

-----------------------------------------------------------------------------
(* Python values *)

PyNone == "<None>"

\* a test that only None fails
Truthy_NoneOnly(v) == v # PyNone

\* truthiness of a str | None value: `not reply` is true for None and ""
Truthy(v) == v # PyNone /\ v # ""

-----------------------------------------------------------------------------
(* Conversation turns *)

NoUrl == [mime |-> "", b64 |-> 0]

TextPart(t) == [type |-> "text", text |-> t, url |-> NoUrl]

ImagePart(u) == [type |-> "image_url", text |-> "", url |-> u]

StrContent(s) == [form |-> "str", str |-> s, parts |-> <<>>]

ListContent(ps) == [form |-> "list", str |-> "", parts |-> ps]

Turn(r, c) == [role |-> r, content |-> c]

INITIAL_PROMPT == "I'm going to have you 'do SLAM' as a vision LLM"

BIRDS_EYE_VIEW_PROMPT == "Now that you have processed all images"

SystemTurn == Turn("system", StrContent("You are a vision language model"))

\* files of the directory: frame k is the k-th file in natural order; its
\* bytes are identified by k
File(k) == [name |-> k, suffix |-> IF k % 2 = 1 THEN ".png" ELSE ".jpg", bytes |-> k]

Lower(s) == CASE s = ".PNG" -> ".png" [] s = ".JPG" -> ".jpg" [] OTHER -> s

\* the base64 text of a file is determined by, and determines, its bytes
b64_data_uri(path) ==
    [mime |-> IF Lower(path.suffix) = ".png" THEN "image/png" ELSE "image/jpeg",
     b64 |-> path.bytes]

\* a user turn that repeats the prompt with every frame
user_content_PromptEveryFrame(k, img_path) ==
    ListContent(<<TextPart(INITIAL_PROMPT), ImagePart(b64_data_uri(img_path))>>)

user_content(k, img_path) ==
    IF k = 1
    THEN ListContent(<<TextPart(INITIAL_PROMPT), ImagePart(b64_data_uri(img_path))>>)
    ELSE ListContent(<<ImagePart(b64_data_uri(img_path))>>)

-----------------------------------------------------------------------------
(* HTTP exchange of one attempt *)

RETRYABLE_STATUSES == {500, 502, 503, 504}

\* a retryable set that also holds the provider code 400
RETRYABLE_API_CODES_With400 == {524, 529, 400}

RETRYABLE_API_CODES == {524, 529}

Attempts == 5

NoCode == -1

\* a response body: json is "malformed", "array" or "object"; for an object,
\* error is "absent", "object" or "string" and code the error's code (NoCode
\* when the error object has none); choices is "absent", "empty" or "list";
\* message and content say how far choices[0].message.content exists
Body(j, e, c, ch, m, ct) ==
    [json |-> j, error |-> e, code |-> c, choices |-> ch, message |-> m, content |-> ct]

NoBody == Body("malformed", "absent", NoCode, "absent", "absent", "absent")

ErrorCodes == {524, 529, 400, NoCode}

ReplyTexts == {"map A", "map B", "", PyNone}

Bodies ==
    {NoBody, Body("array", "absent", NoCode, "absent", "absent", "absent")}
    \cup {Body("object", "object", c, "absent", "absent", "absent") : c \in ErrorCodes}
    \cup {Body("object", "string", NoCode, "absent", "absent", "absent")}
    \cup {Body("object", "absent", NoCode, "absent", "absent", "absent"),
          Body("object", "absent", NoCode, "empty", "absent", "absent"),
          Body("object", "absent", NoCode, "list", "absent", "absent"),
          Body("object", "absent", NoCode, "list", "object", "absent")}
    \cup {Body("object", "absent", NoCode, "list", "object", t) : t \in ReplyTexts}

ClientErrorStatuses == {404, 429}

BodyStatuses == {200, 501}

Resp(k, e, s, b) == [kind |-> k, exc |-> e, status |-> s, body |-> b]

NoResp == Resp("none", "", 0, NoBody)

Responses ==
    {Resp("transport", e, 0, NoBody) : e \in {"ConnectionError", "Timeout"}}
    \cup {Resp("http", "", s, NoBody) : s \in ClientErrorStatuses \cup RETRYABLE_STATUSES}
    \cup {Resp("http", "", s, b) : s \in BodyStatuses, b \in Bodies}

-----------------------------------------------------------------------------
(* send_messages *)

Return(v) == [kind |-> "return", value |-> v, exc |-> ""]

Raise(e) == [kind |-> "raise", value |-> PyNone, exc |-> e]

\* the exception classes an exception is an instance of
Bases(e) ==
    CASE e = "HTTPError" -> {"HTTPError", "RequestException"}
      [] e = "ConnectionError" -> {"ConnectionError", "RequestException"}
      [] e = "Timeout" -> {"Timeout", "RequestException"}
      [] e = "JSONDecodeError" -> {"JSONDecodeError", "RequestException", "ValueError"}
      [] OTHER -> {e}

Caught(e) ==
    Bases(e) \cap {"RequestException", "RuntimeError", "KeyError", "ValueError",
                   "JSONDecodeError"} # {}

\* an extraction that reads a key the message does not have
ExtractContent_WrongKey(data) == Raise("KeyError")

\* data["choices"][0]["message"]["content"]
ExtractContent(data) ==
    IF data.choices = "absent" THEN Raise("KeyError")
    ELSE IF data.choices = "empty" THEN Raise("IndexError")
    ELSE IF data.message = "absent" THEN Raise("KeyError")
    ELSE IF data.content = "absent" THEN Raise("KeyError")
    ELSE Return(data.content)

\* the body of the try statement for one attempt
TryBody(r) ==
    IF r.kind = "transport" THEN Raise(r.exc)
    ELSE IF 400 <= r.status /\ r.status < 500 THEN Raise("HTTPError")
    ELSE IF r.status \in RETRYABLE_STATUSES THEN Raise("RuntimeError")
    ELSE IF r.body.json = "malformed" THEN Raise("JSONDecodeError")
    ELSE IF r.body.json # "object" THEN Raise("TypeError")
    ELSE IF r.body.error = "string" THEN Raise("AttributeError")
    ELSE IF r.body.error = "object" /\ r.body.code \in RETRYABLE_API_CODES
         THEN Raise("RuntimeError")
    ELSE IF r.body.error # "absent" THEN Return(PyNone)
    ELSE ExtractContent(r.body)

\* a backoff that grows linearly: time.sleep(2 * i * 0.5)
Backoff_Linear(n) == 2 * n

\* time.sleep(2 ** i * 0.5), in half seconds
Backoff(n) == 2 ^ n

\* a request that carries only the newest turn
Messages_LastTurnOnly(c) == SubSeq(c, Len(c), Len(c))

\* the messages argument of a call is the conversation itself
Messages(c) == c

Calling == {"frame_call", "summary_call"}

AfterCall == IF pc = "frame_call" THEN "frame_ret" ELSE "summary_ret"

\* the record of a finished call
Reply(v) == [frame |-> IF pc = "frame_call" THEN idx ELSE 0, value |-> v]

StartCall ==
    /\ i' = 1
    /\ sleeps' = <<>>
    /\ sent' = <<>>
    /\ lastResp' = NoResp
    /\ onlyRetryableStatus' = TRUE

\* a loop that runs one iteration past the budget
BudgetSpent_OneMore(n) == n = Attempts + 1

\* the iteration is the last one of range(1, attempts + 1)
BudgetSpent(n) == n = Attempts

\* one iteration of the for loop of send_messages
Attempt(r) ==
    /\ pc \in Calling
    /\ sent' = Append(sent, Messages(convo))
    /\ wire' = wire \cup {Messages(convo)}
    /\ lastResp' = r
    /\ onlyRetryableStatus' =
           (onlyRetryableStatus /\ r.kind = "http" /\ r.status \in RETRYABLE_STATUSES)
    /\ LET o == TryBody(r) IN
         IF o.kind = "return"
         THEN /\ ret' = o.value
              /\ replies' = Append(replies, Reply(o.value))
              /\ pc' = AfterCall
              /\ UNCHANGED <<i, sleeps>>
         ELSE IF ~Caught(o.exc)
         THEN /\ pc' = "crashed"
              /\ UNCHANGED <<i, sleeps, ret, replies>>
         ELSE IF BudgetSpent(i)
         THEN /\ ret' = PyNone
              /\ replies' = Append(replies, Reply(PyNone))
              /\ pc' = AfterCall
              /\ UNCHANGED <<i, sleeps>>
         ELSE /\ sleeps' = Append(sleeps, Backoff(i))
              /\ i' = i + 1
              /\ UNCHANGED <<pc, ret, replies>>
    /\ UNCHANGED <<frames, outGiven, convo, idx, written, transcript>>
    /\ nreqTotal' = (IF counting THEN nreqTotal + 1 ELSE nreqTotal)
    /\ UNCHANGED <<counting, enumVars, capVars>>

-----------------------------------------------------------------------------
(* main *)

\* a driver that prints the reply and does not record it
AppendAssistant_Dropped(c, reply) == c

\* convo.append({"role": "assistant", "content": reply})
AppendAssistant(c, reply) == Append(c, Turn("assistant", StrContent(reply)))

\* a loop that goes on to the next frame whatever the reply
Halts_Never(reply) == FALSE

\* `if not reply: break`
Halts(reply) == ~Truthy(reply)

\* top of the per-frame loop up to the call of send_messages
FrameStep ==
    /\ pc = "loop"
    /\ convo' = Append(convo, Turn("user", user_content(idx, frames[idx])))
    /\ pc' = "frame_call"
    /\ StartCall
    /\ UNCHANGED <<frames, outGiven, idx, ret, wire, replies,
                   written, transcript>>
    /\ UNCHANGED <<countVars, enumVars, capVars>>

\* rest of the loop body after send_messages returned
FrameReturn ==
    /\ pc = "frame_ret"
    /\ IF Halts(ret)
       THEN /\ pc' = "after_loop"
            /\ UNCHANGED <<convo, idx>>
       ELSE /\ convo' = AppendAssistant(convo, ret)
            /\ idx' = idx + 1
            /\ pc' = IF idx = Len(frames) THEN "after_loop" ELSE "loop"
    /\ UNCHANGED <<frames, outGiven, i, ret, sleeps, sent, lastResp,
                   onlyRetryableStatus, wire, replies, written, transcript>>
    /\ UNCHANGED <<countVars, enumVars, capVars>>

\* after the loop: the bird's-eye prompt is appended and sent
SummaryStep ==
    /\ pc = "after_loop"
    /\ convo' = Append(convo, Turn("user", StrContent(BIRDS_EYE_VIEW_PROMPT)))
    /\ pc' = "summary_call"
    /\ StartCall
    /\ UNCHANGED <<frames, outGiven, idx, ret, wire, replies,
                   written, transcript>>
    /\ UNCHANGED <<countVars, enumVars, capVars>>

SummaryReturn ==
    /\ pc = "summary_ret"
    /\ convo' = IF Truthy(ret) THEN AppendAssistant(convo, ret)
                ELSE convo
    /\ pc' = "write"
    /\ UNCHANGED <<frames, outGiven, idx, i, ret, sleeps, sent, lastResp,
                   onlyRetryableStatus, wire, replies, written,
                   transcript>>
    /\ UNCHANGED <<countVars, enumVars, capVars>>

\* a write that sits inside the branch of a successful summary
WritesTranscript_OnSummaryOnly == outGiven /\ Truthy(ret)

\* `if args.out:`
WritesTranscript == outGiven

WriteTranscript ==
    /\ pc = "write"
    /\ IF WritesTranscript
       THEN written' = TRUE /\ transcript' = convo
       ELSE UNCHANGED <<written, transcript>>
    /\ pc' = "done"
    /\ UNCHANGED <<frames, outGiven, convo, idx, i, ret, sleeps, sent, lastResp,
                   onlyRetryableStatus, wire, replies>>
    /\ UNCHANGED <<countVars, enumVars, capVars>>

\* the other program and the enumerator are not running
EnumIdle == dirFiles = {} /\ listing = <<>> /\ enumPc = "idle"

NotExited == -1

CapIdle ==
    /\ capArgs = <<>>
    /\ capPc = "idle"
    /\ interval = 0
    /\ dirCreated = FALSE
    /\ clock = 0
    /\ shots = <<>>
    /\ capEvents = <<>>
    /\ capLog = ""
    /\ exitCode = NotExited

\* the driver before the frame loop, with the other components at rest
DriverStart ==
    /\ EnumIdle
    /\ CapIdle
    /\ convo = <<SystemTurn>>
    /\ idx = 1
    /\ pc = "loop"
    /\ i = 1
    /\ ret = PyNone
    /\ sleeps = <<>>
    /\ sent = <<>>
    /\ lastResp = NoResp
    /\ onlyRetryableStatus = TRUE
    /\ wire = {}
    /\ replies = <<>>
    /\ written = FALSE
    /\ transcript = <<>>

Init ==
    /\ \E n \in 1..MaxFrames : frames = [k \in 1..n |-> File(k)]
    /\ outGiven \in BOOLEAN
    /\ counting = FALSE
    /\ nreqTotal = 0
    /\ DriverStart

Next ==
    \/ FrameStep
    \/ \E r \in Responses : Attempt(r)
    \/ FrameReturn
    \/ SummaryStep
    \/ SummaryReturn
    \/ WriteTranscript

Spec == Init /\ [][Next]_vars

MaxCountedFrames == 1

\* runs in which the requests of the whole run are counted
TermInit ==
    /\ \E n \in 1..MaxCountedFrames : frames = [k \in 1..n |-> File(k)]
    /\ outGiven \in BOOLEAN
    /\ counting = TRUE
    /\ nreqTotal = 0
    /\ DriverStart

\* the interpreter keeps running the program, and every HTTP attempt
\* completes or times out
TermSpec == TermInit /\ [][Next]_vars /\ WF_vars(Next)

-----------------------------------------------------------------------------
(* The frame enumerator: line 117 of main                                  *)
(*   sorted(Path(args.dir).glob("*.[pj][np]g"), key=lambda path: [...])    *)
(* A file name is a sequence of one-character strings.                     *)

StreamerIdle ==
    /\ frames = <<>>
    /\ outGiven = FALSE
    /\ convo = <<>>
    /\ idx = 0
    /\ pc = "idle"
    /\ i = 0
    /\ ret = PyNone
    /\ sleeps = <<>>
    /\ sent = <<>>
    /\ lastResp = NoResp
    /\ onlyRetryableStatus = FALSE
    /\ wire = {}
    /\ replies = <<>>
    /\ written = FALSE
    /\ transcript = <<>>
    /\ counting = FALSE
    /\ nreqTotal = 0

\* the character SUPERSCRIPT TWO: str.isdigit() holds of it, \d does not
\* match it and int() rejects it
SuperscriptTwo == "U+00B2"

\* code point of a character
CharCode(c) ==
    CASE c = "." -> 46 [] c = SuperscriptTwo -> 178
      [] c = "+" -> 43 [] c = "-" -> 45 [] c = "x" -> 120
      [] c = "0" -> 48 [] c = "1" -> 49 [] c = "2" -> 50
      [] c = "G" -> 71 [] c = "J" -> 74 [] c = "N" -> 78 [] c = "P" -> 80
      [] c = "e" -> 101 [] c = "g" -> 103 [] c = "j" -> 106 [] c = "n" -> 110
      [] c = "p" -> 112 [] c = "t" -> 116

\* str.lower() of one character
LowerChar(c) ==
    CASE c = "G" -> "g" [] c = "J" -> "j" [] c = "N" -> "n" [] c = "P" -> "p"
      [] OTHER -> c

\* a character that \d matches
IsDigitChar(c) == CharCode(c) >= 48 /\ CharCode(c) <= 57

\* fnmatch of a name against "*.[pj][np]g"; both sides are case-folded on a
\* platform whose paths are case-insensitive
GlobMatches(name, caseSensitive) ==
    LET n == Len(name)
        F(c) == IF caseSensitive THEN c ELSE LowerChar(c)
    IN  /\ n >= 4
        /\ name[n - 3] = "."
        /\ F(name[n - 2]) \in {"p", "j"}
        /\ F(name[n - 1]) \in {"n", "p"}
        /\ F(name[n]) = "g"

\* re.split(r'(\d+)', name): the non-digit runs (odd places, possibly empty)
\* and the digit runs between them (even places)
ReSplit(name) ==
    LET AddChar(runs, c) ==
            LET n == Len(runs)
            IN  IF IsDigitChar(c) = (n % 2 = 0)
                THEN [runs EXCEPT ![n] = Append(runs[n], c)]
                ELSE Append(runs, <<c>>)
        F[k \in 0..Len(name)] ==
            IF k = 0 THEN << <<>> >> ELSE AddChar(F[k - 1], name[k])
        all == F[Len(name)]
    IN  IF Len(all) % 2 = 0 THEN Append(all, <<>>) ELSE all

\* str.isdigit() of a run
IsDigitRun(run) ==
    run # <<>> /\ \A k \in 1..Len(run) : IsDigitChar(run[k]) \/ run[k] = SuperscriptTwo

\* int(run) raises ValueError: a character of the run is no decimal digit
IntRaises(run) == \E k \in 1..Len(run) : ~IsDigitChar(run[k])

\* int(run) of a run of decimal digits
ToInt(run) ==
    LET V[k \in 0..Len(run)] ==
            IF k = 0 THEN 0 ELSE 10 * V[k - 1] + (CharCode(run[k]) - 48)
    IN  V[Len(run)]

\* int(c) if c.isdigit() else c
KeyElem(run) ==
    IF IsDigitRun(run)
    THEN [isInt |-> TRUE, int |-> ToInt(run), str |-> <<>>]
    ELSE [isInt |-> FALSE, int |-> 0, str |-> run]

\* building the key of a name raises ValueError
KeyRaises(name) ==
    \E j \in 1..Len(ReSplit(name)) :
        IsDigitRun(ReSplit(name)[j]) /\ IntRaises(ReSplit(name)[j])

\* the sort key of a path: the list built from path.name
NaturalKey(name) == [j \in 1..Len(ReSplit(name)) |-> KeyElem(ReSplit(name)[j])]

\* a < b for two str values
StrLess(a, b) ==
    \E k \in 1..(Len(b)) :
        /\ \A j \in 1..(k - 1) : j <= Len(a) /\ a[j] = b[j]
        /\ \/ k = Len(a) + 1
           \/ k <= Len(a) /\ CharCode(a[k]) < CharCode(b[k])

\* comparison of two key lists as Python compares lists: the first place
\* where they differ decides, by < of the two elements, which raises
\* TypeError for an int against a str; without such a place the shorter
\* list is the smaller
ListCompare(x, y) ==
    LET m == IF Len(x) < Len(y) THEN Len(x) ELSE Len(y)
        D == {k \in 1..m : x[k] # y[k]}
    IN  IF D = {}
        THEN (IF Len(x) < Len(y) THEN "lt" ELSE IF Len(x) > Len(y) THEN "gt" ELSE "eq")
        ELSE LET k == CHOOSE d \in D : \A e \in D : d <= e
             IN  IF x[k].isInt # y[k].isInt THEN "TypeError"
                 ELSE IF x[k].isInt
                 THEN (IF x[k].int < y[k].int THEN "lt" ELSE "gt")
                 ELSE (IF StrLess(x[k].str, y[k].str) THEN "lt" ELSE "gt")

KeyLess(a, b) == ListCompare(NaturalKey(a), NaturalKey(b)) = "lt"

\* sorted(seq, key=...): a stable sort; each element goes behind the last
\* element that is not greater than it
RECURSIVE Sorted(_)
Sorted(seq) ==
    IF seq = <<>> THEN <<>>
    ELSE LET n == Len(seq)
             x == seq[n]
             front == Sorted(SubSeq(seq, 1, n - 1))
             P == {k \in 1..Len(front) : ~KeyLess(x, front[k])}
             at == IF P = {} THEN 0 ELSE CHOOSE k \in P : \A q \in P : q <= k
         IN  SubSeq(front, 1, at) \o <<x>> \o SubSeq(front, at + 1, Len(front))

\* the orders in which glob may yield the files of a set
Orders(S) ==
    {q \in [1..Cardinality(S) -> S] : \A a, b \in 1..Cardinality(S) : q[a] = q[b] => a = b}

MaxStemLen == 2

StemChars == {"g", "0", "1", "2"}

SeqsOver(C, n) == UNION {[1..k -> C] : k \in 1..n}

PngExt == <<".", "p", "n", "g">>

JpgExt == <<".", "j", "p", "g">>

\* names the pattern matches, with stems of letters and digits
SortNames == {st \o e : st \in SeqsOver(StemChars, MaxStemLen), e \in {PngExt, JpgExt}}

ExtChars == {"p", "n", "g", "j", "P", "N", "G", "t"}

\* names with every three-letter extension over ExtChars, and .jpeg
GlobNames ==
    {<<"g", "1", ".">> \o e : e \in [1..3 -> ExtChars]}
    \cup {<<"g", "1", ".", "j", "p", "e", "g">>}

\* names with a SUPERSCRIPT TWO in them
SuperscriptNames ==
    {<<"1", SuperscriptTwo, "2">> \o PngExt, <<"g", SuperscriptTwo>> \o PngExt,
     <<SuperscriptTwo, "1">> \o JpgExt}

ExampleDir == {<<"g", "1">> \o PngExt, <<"g", "2">> \o PngExt, <<"g", "1", "0">> \o PngExt}

\* the directories the enumerator is run on
Dirs ==
    {{}}
    \cup {{a, b} : a \in SortNames, b \in SortNames}
    \cup {{a} : a \in GlobNames \cup SuperscriptNames}
    \cup {{a, <<"g", "2">> \o JpgExt} : a \in GlobNames \cup SuperscriptNames}
    \cup {ExampleDir}

\* lines 117-119: glob, sort, and the error for an empty list
Enumerate ==
    /\ enumPc = "start"
    /\ \E caseSensitive \in BOOLEAN :
         \E order \in Orders({f \in dirFiles : GlobMatches(f, caseSensitive)}) :
            IF \E a \in 1..Len(order) : KeyRaises(order[a])
            THEN enumPc' = "ValueError" /\ listing' = <<>>
            ELSE IF \E a, b \in 1..Len(order) :
                   ListCompare(NaturalKey(order[a]), NaturalKey(order[b])) = "TypeError"
            THEN enumPc' = "TypeError" /\ listing' = <<>>
            ELSE /\ listing' = Sorted(order)
                 /\ enumPc' = IF order = <<>> THEN "RuntimeError" ELSE "listed"
    /\ UNCHANGED <<dirFiles, streamerVars, countVars, capVars>>

EnumInit ==
    /\ dirFiles \in Dirs
    /\ listing = <<>>
    /\ enumPc = "start"
    /\ StreamerIdle
    /\ CapIdle

EnumNext == Enumerate

EnumSpec == EnumInit /\ [][EnumNext]_vars

-----------------------------------------------------------------------------
(* The screenshot capturer: screenshot_tool.py                             *)
(* Time is counted in ticks of the clock that time.time() reads; the       *)
(* clock never runs backwards.                                             *)

TicksPerSecond == 2

MaxLag == 1

MaxShots == 3

\* int(time.time())
UnixSeconds(t) == t \div TicksPerSecond

\* the text is accepted by int(): an optional sign and decimal digits
IsIntLiteral(text) ==
    LET body == IF text # <<>> /\ text[1] \in {"+", "-"} THEN Tail(text) ELSE text
    IN  body # <<>> /\ \A k \in 1..Len(body) : IsDigitChar(body[k])

\* int(text) of an accepted text
IntOf(text) ==
    IF text[1] = "-" THEN 0 - ToInt(Tail(text))
    ELSE IF text[1] = "+" THEN ToInt(Tail(text))
    ELSE ToInt(text)

\* a check that lets an interval of zero through
ValidInterval_NonNegative(n) == n >= 0

\* line 17, for an int: not (interval_seconds <= 0)
ValidInterval(n) == n > 0

\* a sleep that is one second short
SleepTicks_OneSecondShort(n) == (n - 1) * TicksPerSecond

\* the least time that time.sleep(interval_seconds) takes
SleepTicks(n) == n * TicksPerSecond

\* the texts given as <interval_seconds>
IntervalArgs ==
    {<<>>, <<"0">>, <<"1">>, <<"2">>, <<"0", "1">>, <<"+", "2">>, <<"-", "1">>,
     <<"-">>, <<"x">>, <<"1", "x">>, <<"1", ".", "2">>}

OutputDir == <<"x">>

\* sys.argv[1:]
ArgLists ==
    {<<>>}
    \cup {<<a>> : a \in IntervalArgs}
    \cup {<<a, OutputDir>> : a \in IntervalArgs}
    \cup {<<a, OutputDir, OutputDir>> : a \in IntervalArgs}

\* the process ends with the given status
Exit(status) == capPc' = "exited" /\ exitCode' = status

\* lines 48-57 and 17-18: the argument checks
CapMain ==
    /\ capPc = "idle"
    /\ IF Len(capArgs) # 2
       THEN capLog' = "usage" /\ Exit(1) /\ UNCHANGED interval
       ELSE IF ~IsIntLiteral(capArgs[1]) \/ ~ValidInterval(IntOf(capArgs[1]))
       THEN capLog' = "interval must be a positive integer" /\ Exit(1) /\ UNCHANGED interval
       ELSE /\ interval' = IntOf(capArgs[1])
            /\ capPc' = "makedirs"
            /\ UNCHANGED <<capLog, exitCode>>
    /\ UNCHANGED <<capArgs, dirCreated, clock, shots, capEvents>>
    /\ UNCHANGED <<streamerVars, countVars, enumVars>>

\* line 20: os.makedirs; an OSError is caught nowhere
MakeDirs ==
    /\ capPc = "makedirs"
    /\ \/ dirCreated' = TRUE /\ capPc' = "mss" /\ UNCHANGED exitCode
       \/ Exit(1) /\ UNCHANGED dirCreated
    /\ UNCHANGED <<capArgs, interval, clock, shots, capEvents, capLog>>
    /\ UNCHANGED <<streamerVars, countVars, enumVars>>

\* lines 22-25: mss.mss(), the monitor and the starting message; an error of
\* mss is caught nowhere
OpenScreen ==
    /\ capPc = "mss"
    /\ \/ capPc' = "grab" /\ capLog' = "starting" /\ UNCHANGED exitCode
       \/ Exit(1) /\ UNCHANGED capLog
    /\ UNCHANGED <<capArgs, interval, dirCreated, clock, shots, capEvents>>
    /\ UNCHANGED <<streamerVars, countVars, enumVars>>

\* line 30: sct.grab returns after d ticks
Grab(d) ==
    /\ capPc = "grab"
    /\ Len(shots) < MaxShots
    /\ clock' = clock + d
    /\ capEvents' = Append(capEvents, "grab")
    /\ capPc' = "write"
    /\ UNCHANGED <<capArgs, interval, dirCreated, shots, capLog, exitCode>>
    /\ UNCHANGED <<streamerVars, countVars, enumVars>>

\* lines 33-39: the timestamp, the file name, to_png in d ticks, the message
Write(d) ==
    /\ capPc = "write"
    /\ shots' = Append(shots, UnixSeconds(clock))
    /\ clock' = clock + d
    /\ capEvents' = Append(capEvents, "write")
    /\ capLog' = "saved"
    /\ capPc' = "sleep"
    /\ UNCHANGED <<capArgs, interval, dirCreated, exitCode>>
    /\ UNCHANGED <<streamerVars, countVars, enumVars>>

\* line 41: time.sleep returns no earlier than after the interval
Sleep(d) ==
    /\ capPc = "sleep"
    /\ clock' = clock + SleepTicks(interval) + d
    /\ capEvents' = Append(capEvents, "sleep")
    /\ capPc' = "grab"
    /\ UNCHANGED <<capArgs, interval, dirCreated, shots, capLog, exitCode>>
    /\ UNCHANGED <<streamerVars, countVars, enumVars>>

\* lines 44-45: sct.grab or to_png raises; the handler prints and the
\* function returns, after which the script ends
CaptureFails ==
    /\ capPc \in {"grab", "write"}
    /\ capEvents' = Append(capEvents, "error")
    /\ capLog' = "an error occurred"
    /\ Exit(0)
    /\ UNCHANGED <<capArgs, interval, dirCreated, clock, shots>>
    /\ UNCHANGED <<streamerVars, countVars, enumVars>>

\* Ctrl+C: lines 42-43 inside the try; before it KeyboardInterrupt is caught
\* nowhere and the interpreter ends with the status of SIGINT
Interrupt ==
    /\ capPc \in {"makedirs", "mss", "grab", "write", "sleep"}
    /\ IF capPc \in {"makedirs", "mss"}
       THEN Exit(130) /\ UNCHANGED <<capEvents, capLog>>
       ELSE /\ capEvents' = Append(capEvents, "interrupt")
            /\ capLog' = "stopped"
            /\ Exit(0)
    /\ UNCHANGED <<capArgs, interval, dirCreated, clock, shots>>
    /\ UNCHANGED <<streamerVars, countVars, enumVars>>

CapInit ==
    /\ capArgs \in ArgLists
    /\ capPc = "idle"
    /\ interval = 0
    /\ dirCreated = FALSE
    /\ clock \in 0..(TicksPerSecond - 1)
    /\ shots = <<>>
    /\ capEvents = <<>>
    /\ capLog = ""
    /\ exitCode = NotExited
    /\ StreamerIdle
    /\ EnumIdle

CapNext ==
    \/ CapMain
    \/ MakeDirs
    \/ OpenScreen
    \/ \E d \in 0..MaxLag : Grab(d)
    \/ \E d \in 0..MaxLag : Write(d)
    \/ \E d \in 0..MaxLag : Sleep(d)
    \/ CaptureFails
    \/ Interrupt

CapSpec == CapInit /\ [][CapNext]_vars

-----------------------------------------------------------------------------
(* Properties *)

Is4xx(r) == r.kind = "http" /\ r.status >= 400 /\ r.status <= 499

\* the call started last has returned to the driver
CallReturned == pc \notin Calling /\ pc # "crashed" /\ sent # <<>>

\* the last attempt was answered by a retry: a backoff sleep and a new
\* iteration, or, on the last attempt of the budget, no-result without a sleep
RetriedOrExhausted ==
    \/ /\ pc \in Calling
       /\ i = Len(sent) + 1
       /\ Len(sleeps) = Len(sent)
    \/ /\ CallReturned
       /\ Len(sent) = 5
       /\ Len(sleeps) = 4
       /\ ret = PyNone

\* the last attempt ended the call with no-result and without a sleep
AbandonedAtOnce ==
    /\ CallReturned
    /\ ret = PyNone
    /\ replies[Len(replies)].value = PyNone
    /\ Len(sleeps) = Len(sent) - 1

\* C1: an attempt that receives a 4xx status ends the call at once: no
\* further request, no backoff sleep, and the call returns no-result.
C1_ClientErrorAbandonsCall == Is4xx(lastResp) => AbandonedAtOnce

SummaryUserTurn == Turn("user", StrContent(BIRDS_EYE_VIEW_PROMPT))

HasSummaryTurn(m) == \E j \in 1..Len(m) : m[j] = SummaryUserTurn

\* the call for frame k has returned no-result
FrameFailed(k) ==
    \E j \in 1..Len(replies) : replies[j].frame = k /\ replies[j].value = PyNone

\* C2: once the call for some frame k has returned no-result, no summary turn
\* is appended and no summary request is sent: the conversation, every
\* request and the written transcript hold only the turns through frame k.
C2_NoSummaryAfterHalt ==
    \A k \in 1..Len(frames) :
        FrameFailed(k) =>
            /\ ~HasSummaryTurn(convo)
            /\ \A m \in wire : ~HasSummaryTurn(m)
            /\ Len(convo) = 2 * k
            /\ written => (transcript = convo /\ ~HasSummaryTurn(transcript))

\* the system turn, then user, assistant, user, assistant, ...
Alternates(m) ==
    /\ Len(m) >= 1
    /\ m[1] = SystemTurn
    /\ \A j \in 2..Len(m) : m[j].role = (IF j % 2 = 0 THEN "user" ELSE "assistant")

\* C3: in every reachable state the conversation, every request sent and the
\* written transcript are the system turn followed by strictly alternating
\* user and assistant turns.
C3_StrictAlternation ==
    /\ Alternates(convo)
    /\ \A m \in wire : Alternates(m)
    /\ written => Alternates(transcript)

\* C4: a call all of whose attempts get a status in {500, 502, 503, 504}
\* returns no-result after exactly 5 requests and 4 sleeps of 1, 2, 4, 8
\* seconds (2, 4, 8, 16 half seconds), 0.5 * 2^j after attempt j; on the way
\* attempt j is preceded by exactly j - 1 sleeps.
C4_ExhaustionOnRetryableStatus ==
    (onlyRetryableStatus /\ sent # <<>>) =>
        /\ lastResp.status \in {500, 502, 503, 504}
        /\ pc # "crashed"
        /\ Len(sent) <= 5
        /\ sleeps = SubSeq(<<2, 4, 8, 16>>, 1, Len(sleeps))
        /\ pc \in Calling => (Len(sent) < 5 /\ Len(sleeps) = Len(sent))
        /\ pc \notin Calling =>
              /\ Len(sent) = 5
              /\ sleeps = <<2, 4, 8, 16>>
              /\ ret = PyNone
              /\ replies[Len(replies)].value = PyNone

C4_Witness ==
    /\ onlyRetryableStatus
    /\ pc = "frame_ret"
    /\ Len(sent) = 5
    /\ Len(sleeps) = 4

\* a response with a body that is a JSON object holding an error object, on
\* a status that is neither 4xx nor in the retryable set
IsApiError(r) ==
    /\ r.kind = "http"
    /\ ~Is4xx(r)
    /\ r.status \notin {500, 502, 503, 504}
    /\ r.body.json = "object"
    /\ r.body.error = "object"

IsListedFailure(r) ==
    \/ r.kind = "transport"
    \/ /\ r.kind = "http"
       /\ ~Is4xx(r)
       /\ r.status \notin {500, 502, 503, 504}
       /\ \/ r.body.json = "malformed"
          \/ /\ r.body.json = "object"
             /\ r.body.error = "absent"
             /\ \/ r.body.choices \in {"absent", "empty"}
                \/ r.body.message = "absent"
                \/ r.body.content = "absent"

\* C6: every transport exception, timeout, malformed-JSON body and
\* missing-field failure of the extraction (no choices key, empty choices
\* list, missing message or content) is retried or exhausts the budget; no
\* exception reaches the driver.
C6_ExtractionFailuresRetried == IsListedFailure(lastResp) => RetriedOrExhausted

HasImage(m, f) ==
    \E j \in 1..Len(m) : \E p \in 1..Len(m[j].content.parts) :
        /\ m[j].content.parts[p].type = "image_url"
        /\ m[j].content.parts[p].url.b64 = f

FrameUserTurns(m) ==
    {j \in 1..Len(m) : m[j].role = "user" /\ m[j].content.form = "list"}

\* C7: once the call for frame k has returned no-result the loop is over:
\* the driver never returns to the loop, no request and no turn carries the
\* image of a frame after k, and the conversation has k per-frame user turns.
C7_HaltOnFailedFrame ==
    \A k \in 1..Len(frames) :
        FrameFailed(k) =>
            /\ idx = k
            /\ pc \notin {"loop", "frame_call"}
            /\ Cardinality(FrameUserTurns(convo)) = k
            /\ \A f \in (k + 1)..Len(frames) :
                  /\ ~HasImage(convo, f)
                  /\ \A m \in wire : ~HasImage(m, f)

C7_Witness ==
    /\ Len(frames) >= 2
    /\ FrameFailed(1)
    /\ pc = "done"

\* the request of frame k: the system turn, the user turn and the returned
\* reply of each frame before k, and the user turn of frame k
ExpectedFrameRequest(k) ==
    [j \in 1..(2 * k) |->
        IF j = 1 THEN SystemTurn
        ELSE IF j % 2 = 0
        THEN Turn("user", user_content(j \div 2, File(j \div 2)))
        ELSE Turn("assistant", StrContent(replies[(j - 1) \div 2].value))]

\* C8: every request is the whole conversation; the request of frame k is
\* the system turn, the k-1 finished pairs of frames 1..k-1 in order and the
\* user turn of frame k; it is sent only when the calls of all earlier
\* frames have returned; every retry resends the same message list.
C8_FullHistorySequential ==
    /\ pc \in Calling => \A j \in 1..Len(sent) : sent[j] = convo
    /\ \A a, b \in 1..Len(sent) : sent[a] = sent[b]
    /\ pc \in {"frame_call", "frame_ret"} =>
          /\ Len(replies) = (IF pc = "frame_call" THEN idx - 1 ELSE idx)
          /\ \A f \in 1..(idx - 1) :
                replies[f].frame = f /\ replies[f].value \notin {PyNone, ""}
          /\ \A j \in 1..Len(sent) : sent[j] = ExpectedFrameRequest(idx)
    /\ \A m \in wire :
          \/ \E k \in 1..idx : k <= Len(frames) /\ m = ExpectedFrameRequest(k)
          \/ m[Len(m)] = SummaryUserTurn

C8_Witness ==
    /\ pc = "frame_call"
    /\ idx = 2
    /\ Len(sent) = 3
    /\ Len(sent[3]) = 4

AllFramesSucceeded ==
    /\ Len(replies) >= Len(frames)
    /\ \A f \in 1..Len(frames) :
          replies[f].frame = f /\ replies[f].value \notin {PyNone, ""}

SummarySucceeded ==
    /\ Len(replies) = Len(frames) + 1
    /\ replies[Len(replies)].frame = 0
    /\ replies[Len(replies)].value \notin {PyNone, ""}

\* C9: after n frames have been processed successfully the conversation has
\* 1 + 2n turns; when all N frames succeeded it has 1 + 2N turns before the
\* summary request is appended and 1 + 2N + 2 after a successful summary.
C9_ConversationGrowth ==
    /\ pc = "loop" => Len(convo) = 1 + 2 * (idx - 1)
    /\ (pc = "after_loop" /\ AllFramesSucceeded) => Len(convo) = 1 + 2 * Len(frames)
    /\ (pc \in {"write", "done"} /\ AllFramesSucceeded /\ SummarySucceeded) =>
          /\ Len(convo) = 1 + 2 * Len(frames) + 2
          /\ written => Len(transcript) = 1 + 2 * Len(frames) + 2

C9_Witness ==
    /\ pc = "done"
    /\ written
    /\ Len(frames) = 2
    /\ AllFramesSucceeded
    /\ SummarySucceeded
    /\ Len(convo) = 7

\* a body without an error field whose choices[0].message.content is a text
IsSuccess(r) ==
    /\ r.kind = "http"
    /\ ~Is4xx(r)
    /\ r.status \notin {500, 502, 503, 504}
    /\ r.body.json = "object"
    /\ r.body.error = "absent"
    /\ r.body.choices = "list"
    /\ r.body.message = "object"
    /\ r.body.content \notin {"absent", PyNone}

\* C10: when attempt k is the first success, the call returns its text at
\* once, after exactly k requests and the k-1 sleeps of the failed attempts,
\* and posts nothing more.
C10_SuccessAfterRetries ==
    IsSuccess(lastResp) =>
        /\ CallReturned
        /\ ret = lastResp.body.content
        /\ replies[Len(replies)].value = lastResp.body.content
        /\ i = Len(sent)
        /\ Len(sleeps) = Len(sent) - 1
        /\ sleeps = SubSeq(<<2, 4, 8, 16>>, 1, Len(sent) - 1)

C10_Witness ==
    /\ IsSuccess(lastResp)
    /\ lastResp.status = 200
    /\ Len(sent) = 2
    /\ sleeps = <<2>>
    /\ ret = "map A"
    /\ pc = "frame_ret"

IsPrefix(a, b) == Len(a) <= Len(b) /\ SubSeq(b, 1, Len(a)) = a

\* the summary call has returned a reply text / has returned no-result
SummaryReplied ==
    \E j \in 1..Len(replies) :
        replies[j].frame = 0 /\ replies[j].value \notin {PyNone, ""}

SummaryReturnedNothing ==
    \E j \in 1..Len(replies) : replies[j].frame = 0 /\ replies[j].value = PyNone

\* C11 as stated: the transcript is written whenever --out is given, and it
\* holds a summary turn only if the summary reply was obtained.
C11_SummaryTurnOnlyIfObtained ==
    /\ (pc = "done" /\ outGiven) => written
    /\ written => (HasSummaryTurn(transcript) => SummaryReplied)

C11_AfterSummary ==
    /\ (pc = "done" /\ outGiven) => written
    /\ written => transcript = convo
    /\ pc \in {"write", "done"} =>
          /\ Cardinality({j \in 1..Len(convo) : convo[j] = SummaryUserTurn}) = 1
          /\ IF SummaryReplied
             THEN /\ convo[Len(convo) - 1] = SummaryUserTurn
                  /\ convo[Len(convo)] =
                        Turn("assistant", StrContent(replies[Len(replies)].value))
             ELSE /\ convo[Len(convo)] = SummaryUserTurn
                  /\ convo = sent[1]

\* C11 (amended): no step removes or rewrites a turn (the conversation only
\* grows by appending); after a summary call without result the conversation
\* is still the message list that call posted; the transcript is written
\* whenever --out is given and equals the conversation: it always holds the
\* summary request (user) turn, as its last turn when no reply was obtained,
\* and holds the summary reply (assistant) turn only if one was obtained.
C11_SummaryFailureKeepsTranscript ==
    /\ []C11_AfterSummary
    /\ [][IsPrefix(convo, convo')]_vars

C11_Witness ==
    /\ pc = "done"
    /\ written
    /\ SummaryReturnedNothing
    /\ AllFramesSucceeded
    /\ Len(frames) = 2
    /\ Len(transcript) = 6
    /\ transcript[6] = SummaryUserTurn

\* the last "." and what follows it, lower-cased: path.suffix.lower()
LowerSuffix(name) ==
    LET D == {k \in 1..Len(name) : name[k] = "."}
        d == CHOOSE k \in D : \A e \in D : e <= k
    IN  IF D = {} THEN <<>>
        ELSE [k \in 1..(Len(name) - d + 1) |-> LowerChar(name[d + k - 1])]

Listed == {listing[k] : k \in 1..Len(listing)}

Enumerated == enumPc \in {"listed", "RuntimeError"}

\* two names whose run lists differ in exactly one place, a numeric one
DifferInOneNumericRun(a, b) ==
    LET x == ReSplit(a)
        y == ReSplit(b)
    IN  /\ Len(x) = Len(y)
        /\ \E k \in 1..Len(x) :
              /\ k % 2 = 0
              /\ x[k] # y[k]
              /\ \A j \in 1..Len(x) : j # k => x[j] = y[j]

\* the number in the one run where a and b differ
NumberAt(a, b) ==
    LET x == ReSplit(a)
        k == CHOOSE j \in 1..Len(x) : x[j] # ReSplit(b)[j]
    IN  ToInt(x[k])

NaturallyOrdered ==
    /\ \A a, b \in 1..Len(listing) :
          a < b => ListCompare(NaturalKey(listing[a]), NaturalKey(listing[b])) \in {"lt", "eq"}
    /\ \A a, b \in 1..Len(listing) :
          (/\ DifferInOneNumericRun(listing[a], listing[b])
           /\ NumberAt(listing[a], listing[b]) < NumberAt(listing[b], listing[a])) => a < b

\* C12: the enumerator orders the matching names of every directory by the
\* natural key; a pair of names that differ in one numeric run is listed
\* with the smaller number first, and building and comparing the keys never
\* fails, whatever the file names
C12_NaturalOrderOfEveryDirectory ==
    enumPc # "start" => Enumerated /\ NaturallyOrdered

\* the same, apart from the directories where building a key raises
C12_NaturalOrderWhereKeysBuild ==
    enumPc \notin {"start", "ValueError"} =>
        /\ Enumerated
        /\ NaturallyOrdered
        /\ Listed = {f \in dirFiles : f \in Listed}
        /\ Len(listing) = Cardinality(Listed)

C12_Witness ==
    /\ enumPc = "listed"
    /\ listing = <<<<"2">> \o PngExt, <<"1", "0">> \o PngExt>>

\* C13: a file of the directory is listed if and only if its extension,
\* lower-cased, is .png or .jpg
C13_ExtensionFilter ==
    Enumerated =>
        \A f \in dirFiles : f \in Listed <=> LowerSuffix(f) \in {PngExt, JpgExt}

C13_PpgListed ==
    enumPc = "listed" /\ listing = <<<<"g", "1", ".", "p", "p", "g">>>>

\* how the capture loop was left: the last event, once the loop has run
LoopOutcome == IF capEvents = <<>> THEN "" ELSE capEvents[Len(capEvents)]

\* C14: the capture loop is left only by an interrupt or by a capture error;
\* after an interrupt the process logs that it stopped and ends cleanly,
\* after an exception of the grab or of the write it logs the error and ends
\* with a non-zero status
C14_CaptureErrorExitsWithFailure ==
    /\ (capPc = "exited" /\ capEvents # <<>>) => LoopOutcome \in {"interrupt", "error"}
    /\ LoopOutcome = "interrupt" =>
           capPc = "exited" /\ capLog = "stopped" /\ exitCode = 0
    /\ LoopOutcome = "error" =>
           capPc = "exited" /\ capLog = "an error occurred" /\ exitCode \notin {0, NotExited}

C14_ErrorExitsWithZero ==
    capPc = "exited" /\ LoopOutcome = "error" /\ exitCode = 0 /\ Len(shots) = 1

\* a wrong argument count, a text that is no integer, or an integer <= 0
InvalidArgs ==
    \/ Len(capArgs) # 2
    \/ ~IsIntLiteral(capArgs[1])
    \/ IntOf(capArgs[1]) <= 0

\* C15: with a wrong argument count, a non-integer interval or an interval
\* <= 0 the capturer ends with a failure status in its first step, and at no
\* time is the output directory created, the screen grabbed or a file written
C15_InvalidArgsFailBeforeCapture ==
    InvalidArgs =>
        /\ ~dirCreated
        /\ shots = <<>>
        /\ capEvents = <<>>
        /\ capPc \in {"idle", "exited"}
        /\ capPc = "exited" => exitCode \notin {0, NotExited}

C15_Witness ==
    /\ capPc = "exited"
    /\ exitCode = 1
    /\ capArgs = << <<"0">>, OutputDir >>
    /\ ~dirCreated

\* the k-th step of the capture loop
LoopStep(k) == IF k % 3 = 1 THEN "grab" ELSE IF k % 3 = 2 THEN "write" ELSE "sleep"

C19_Captures ==
    /\ \A k \in 1..Len(capEvents) :
          \/ capEvents[k] = LoopStep(k)
          \/ k = Len(capEvents) /\ capEvents[k] \in {"interrupt", "error"}
    /\ Len(shots) = Cardinality({k \in 1..Len(capEvents) : capEvents[k] = "write"})
    /\ \A k \in 1..(Len(shots) - 1) : shots[k + 1] - shots[k] >= 1
    /\ Cardinality({shots[k] : k \in 1..Len(shots)}) = Len(shots)
    /\ capPc = "write" => LoopOutcome = "grab"
    /\ capPc = "sleep" => LoopOutcome = "write" /\ shots[Len(shots)] <= UnixSeconds(clock)
    /\ (capPc = "grab" /\ capEvents # <<>>) => LoopOutcome = "sleep"

C19_Steps ==
    /\ capPc = "grab" => capPc' \in {"write", "exited"}
    /\ capPc = "write" => capPc' \in {"sleep", "exited"}
    /\ capPc = "sleep" => capPc' \in {"grab", "exited"}
    /\ capPc' = "sleep" => shots' = Append(shots, UnixSeconds(clock))
    /\ (capPc = "sleep" /\ capPc' = "grab") =>
           interval >= 1 /\ clock' - clock >= interval * TicksPerSecond
    /\ clock' >= clock

\* C19: with a positive interval every iteration grabs, then writes
\* screenshot_<seconds of the clock>, then sleeps for no less than the
\* interval, in this order; the timestamps of consecutive captures differ by
\* at least 1, so every capture has a file of its own
C19_GrabWriteSleepDistinctNames == []C19_Captures /\ [][C19_Steps]_vars

C19_Witness ==
    /\ interval = 1
    /\ Len(shots) = 3
    /\ shots[2] = shots[1] + 1
    /\ shots[3] = shots[2] + 1
    /\ capPc = "sleep"

\* the turns of m that carry the instruction text
PromptTurns(m) ==
    {j \in 1..Len(m) :
        \/ m[j].content.str = INITIAL_PROMPT
        \/ \E p \in 1..Len(m[j].content.parts) : m[j].content.parts[p].text = INITIAL_PROMPT}

\* the message lists of the run: the conversation, every request posted
\* and the transcript written
MessageLists == {convo} \cup wire \cup (IF written THEN {transcript} ELSE {})

\* C16: in the conversation, in every request and in the transcript the
\* user turn of frame 1 is [instruction text, image of frame 1], the user
\* turn of a later frame k is [image of frame k] alone, and the instruction
\* text is in the turn at index 1 (the second turn) and in no other
C16_PromptOnlyInFirstUserTurn ==
    \A m \in MessageLists :
        /\ PromptTurns(m) = (IF Len(m) >= 2 THEN {2} ELSE {})
        /\ \A j \in FrameUserTurns(m) :
              /\ j % 2 = 0
              /\ j \div 2 <= Len(frames)
              /\ m[j].content.parts =
                    (IF j = 2
                     THEN <<TextPart(INITIAL_PROMPT), ImagePart(b64_data_uri(frames[1]))>>
                     ELSE <<ImagePart(b64_data_uri(frames[j \div 2]))>>)
        /\ \A j \in FrameUserTurns(m) : j > 2 => (j - 2) \in FrameUserTurns(m)

C16_Witness ==
    /\ pc = "done"
    /\ written
    /\ Len(frames) = 3
    /\ Len(transcript) = 9
    /\ FrameUserTurns(transcript) = {2, 4, 6}
    /\ Cardinality(wire) = 4

\* a body without an error field whose choices[0].message.content is the
\* empty text or null
EmptySuccess(r) ==
    /\ r.kind = "http"
    /\ ~Is4xx(r)
    /\ r.status \notin {500, 502, 503, 504}
    /\ r.body.json = "object"
    /\ r.body.error = "absent"
    /\ r.body.choices = "list"
    /\ r.body.message = "object"
    /\ r.body.content \in {"", PyNone}

AssistantTurns(m) == {j \in 1..Len(m) : m[j].role = "assistant"}

\* C18: a successful response with an empty or null text ends the call at
\* once, without a retry, and the driver handles the returned value as
\* no-result: the frame loop halts at that frame with no assistant turn for
\* it, the summary gets no assistant turn; so no assistant turn of the
\* conversation or of the transcript is empty
C18_EmptyReplyIsNoResult ==
    /\ EmptySuccess(lastResp) =>
          /\ CallReturned
          /\ ret = lastResp.body.content
          /\ i = Len(sent)
          /\ Len(sleeps) = Len(sent) - 1
    /\ \A j \in 1..Len(replies) :
          (replies[j].frame >= 1 /\ replies[j].value \in {"", PyNone}) =>
              LET k == replies[j].frame
              IN  /\ idx = k
                  /\ pc \notin {"loop", "frame_call"}
                  /\ Len(convo) >= 2 * k
                  /\ AssistantTurns(convo) \cap {2 * k + 1} = {}
                  /\ Cardinality(FrameUserTurns(convo)) = k
    /\ \A j \in 1..Len(replies) :
          (replies[j].frame = 0 /\ replies[j].value \in {"", PyNone}) =>
              /\ pc \in {"summary_ret", "write", "done"}
              /\ convo[Len(convo)] = SummaryUserTurn
    /\ \A m \in {convo, transcript} : \A j \in AssistantTurns(m) :
          m[j].content.form = "str" /\ m[j].content.str \notin {"", PyNone}

C18_Witness ==
    /\ pc = "done"
    /\ Len(frames) = 2
    /\ replies = <<[frame |-> 1, value |-> ""], [frame |-> 0, value |-> PyNone]>>
    /\ EmptySuccess(lastResp)
    /\ Len(sent) = 1
    /\ sleeps = <<>>
    /\ convo = <<SystemTurn, Turn("user", user_content(1, frames[1])), SummaryUserTurn>>

\* the calls of send_messages begun so far: those that returned and the one
\* that is running or has died of an exception
CallsMade == Len(replies) + (IF pc \in Calling \cup {"crashed"} THEN 1 ELSE 0)

C17_Budget ==
    /\ Len(sent) <= 5
    /\ Len(sleeps) <= 4
    /\ Len(sleeps) <= Len(sent)
    /\ CallsMade <= Len(frames) + 1
    /\ nreqTotal <= (Len(frames) + 1) * 5
    /\ nreqTotal <= 5 * CallsMade

\* C17: every run ends (the driver finishes or dies of an exception); a call
\* posts at most 5 requests and sleeps at most 4 times, at most N + 1 calls
\* are made for N frames, and at most (N + 1) * 5 requests are posted in all
C17_TerminatesWithinBudget == []C17_Budget /\ <>(pc \in {"done", "crashed"})

C17_Witness ==
    /\ pc = "done"
    /\ Len(frames) = 1
    /\ nreqTotal = 10
    /\ Len(sleeps) = 4
    /\ Len(replies) = 2

====
